---- MODULE Spec2Model ----
(***************************************************************************)
(* Model of the markdown lexer of md-to-tui (src/parser/lexer.rs).         *)
(*                                                                         *)
(* Bytes are the integers 0..255 (u8).  A Lexer is the four fields         *)
(* position, read_position, ch, input.  One call of Lexer::parse is the    *)
(* sequence Parse, WarmUp, LoopStep*, Return: between two of these steps   *)
(* nothing else can happen (pc allows exactly one of them), so a call is   *)
(* run to its end exactly as the code runs it, and each step is one whole  *)
(* call of next_token, with the read_char, read_indent and read_heading    *)
(* calls it makes.                                                         *)
(***************************************************************************)
EXTENDS Integers, Sequences, FiniteSets, TLC

VARIABLES
    position,       \* Lexer.position
    read_position,  \* Lexer.read_position
    ch,             \* Lexer.ch
    input,          \* Lexer.input, the byte buffer
    tokens,         \* the local `tokens` of parse
    spans,          \* for each token pushed, <<position before, position after>> its next_token call
    pc,             \* where the current parse call is: "idle", "warm", "loop"
    result,         \* what the last finished parse call returned
    calls,          \* number of parse calls made on the Lexer so far
    fed,            \* number of bytes handed to the Lexer so far
    iters,          \* number of loop iterations of the current parse call
    erred,          \* an earlier parse call on the Lexer has returned Err
    tk,             \* the token handed to to_string
    rendered        \* the text to_string produced for tk

vars == <<position, read_position, ch, input, tokens, spans, pc, result, calls, fed, iters,
          erred, tk, rendered>>

----------------------------------------------------------------------------
(* Bounds of the model *)

\* most bytes handed to the Lexer, over all its parse calls; so also the
\* longest text handed to parse
MaxBytes == 4

\* most parse calls made on the Lexer
MaxCalls == 2

\* largest heading count and longest Indent text handed to to_string
MaxRender == 3

----------------------------------------------------------------------------
(* Bytes *)

\* b'\0', lexer.rs line 134 / 160
NUL == 0

\* b'\n', lexer.rs line 135; the byte parse prepends (line 109)
NEWLINE == 10

\* b'#', lexer.rs line 132 / 186
HASH == 35

\* INDENT_CHARS, in the order of the source:
\* a..z, A..Z, "1234567890", ',', '"', '\''
INDENT_CHARS ==
    [i \in 1..26 |-> 96 + i] \o [i \in 1..26 |-> 64 + i]
        \o <<49, 50, 51, 52, 53, 54, 55, 56, 57, 48>> \o <<44, 34, 39>>

\* the characters of INDENT_CHARS, one string per byte, in the same order
INDENT_GLYPHS ==
    << "a","b","c","d","e","f","g","h","i","j","k","l","m",
       "n","o","p","q","r","s","t","u","v","w","x","y","z",
       "A","B","C","D","E","F","G","H","I","J","K","L","M",
       "N","O","P","Q","R","S","T","U","V","W","X","Y","Z",
       "1","2","3","4","5","6","7","8","9","0", ",", "\"", "'" >>

\* <[u8]>::contains
Contains(s, c) == \E i \in DOMAIN s : s[i] = c

\* INDENT_CHARS.contains(&ch)
IsIndentChar(c) == Contains(INDENT_CHARS, c)

----------------------------------------------------------------------------
(* Tokens: enum Token.  Every token is a record of the same shape; n is    *)
(* the payload of Heading, text of Indent (a byte string), b of Illegal.   *)

Tok(t) == [type |-> t, n |-> 0, text |-> <<>>, b |-> 0]
Heading(k) == [type |-> "Heading", n |-> k, text |-> <<>>, b |-> 0]
Indent(s) == [type |-> "Indent", n |-> 0, text |-> s, b |-> 0]
Illegal(c) == [type |-> "Illegal", n |-> 0, text |-> <<>>, b |-> c]

\* the variants without payload
SimpleNames ==
    { "WhiteSpace", "Tab", "EOL", "EOF", "LeftSquare", "RightSquare",
      "LeftParen", "RightParen", "LeftAngle", "RightAngle", "Dot", "Dash",
      "Equal", "Plus", "Asterisk", "Undersocre", "BackTick", "BackSlash",
      "Slash", "Colon", "SemiColon" }

\* Token::default()
DefaultToken == Tok("EOF")

----------------------------------------------------------------------------
(* impl Display for Token *)

\* the String of an Indent token as text: its bytes as characters.  An
\* Indent only ever holds bytes of INDENT_CHARS; any other byte is shown
\* by its number between '<' and '>'.
Glyph(c) ==
    IF IsIndentChar(c)
    THEN INDENT_GLYPHS[CHOOSE i \in DOMAIN INDENT_CHARS : INDENT_CHARS[i] = c]
    ELSE "<" \o ToString(c) \o ">"

RECURSIVE Str(_)
Str(s) == IF s = <<>> THEN "" ELSE Glyph(Head(s)) \o Str(Tail(s))

\* the match of fmt: the text written after the prefix
DisplayBody(t) ==
    CASE t.type = "Heading" -> "Heading: #" \o ToString(t.n)
      [] t.type = "Indent"  -> "Indent: " \o Str(t.text) \o " "
      [] t.type = "Illegal" -> "Illegal: " \o ToString(t.b) \o " "
      [] OTHER              -> t.type

\* fmt without its first line, write!(f, "Token -> ")?
DisplayNoPrefix(t) == DisplayBody(t)

\* Token::fmt, and so Token::to_string
Display(t) == "Token -> " \o DisplayBody(t)

----------------------------------------------------------------------------
(* impl Lexer *)

\* a Lexer value
LexerOf(p, r, c, buf) == [position |-> p, read_position |-> r, ch |-> c, input |-> buf]

\* Lexer::new
NewLexer == LexerOf(0, 0, 0, <<>>)

\* read_char without its last line, read_position += 1
ReadCharStuck(L) ==
    [L EXCEPT !.ch = IF L.read_position >= Len(L.input)
                     THEN NUL
                     ELSE L.input[L.read_position + 1],
              !.position = L.read_position]

\* read_char reading one byte too far, input[read_position + 1]
ReadCharOffByOne(L) ==
    [L EXCEPT !.ch = IF L.read_position + 1 >= Len(L.input)
                     THEN NUL
                     ELSE L.input[L.read_position + 2],
              !.position = L.read_position,
              !.read_position = L.read_position + 1]

\* read_char with its last two lines in the other order:
\* read_position += 1; position = read_position
ReadCharSwapped(L) ==
    [L EXCEPT !.ch = IF L.read_position >= Len(L.input)
                     THEN NUL
                     ELSE L.input[L.read_position + 1],
              !.position = L.read_position + 1,
              !.read_position = L.read_position + 1]

\* Lexer::read_char
ReadChar(L) ==
    [L EXCEPT !.ch = IF L.read_position >= Len(L.input)
                     THEN NUL
                     ELSE L.input[L.read_position + 1],
              !.position = L.read_position,
              !.read_position = L.read_position + 1]

\* the while loop of read_indent
RECURSIVE ReadIndentLoop(_)
ReadIndentLoop(L) == IF IsIndentChar(L.ch) THEN ReadIndentLoop(ReadChar(L)) ELSE L

\* read_heading with an `if` in place of its `while`
ReadHeadingLoopOnce(L) == IF L.ch = HASH THEN ReadChar(L) ELSE L

\* the while loop of read_heading
RECURSIVE ReadHeadingLoop(_)
ReadHeadingLoop(L) == IF L.ch = HASH THEN ReadHeadingLoop(ReadChar(L)) ELSE L

\* String::from_utf8_lossy(..).to_string() on a byte slice: ASCII bytes are
\* kept; a byte that is no valid UTF-8 becomes U+FFFD (EF BF BD).  (Valid
\* multi-byte sequences would be kept whole; a slice of read_indent holds
\* ASCII bytes only.)
RECURSIVE Utf8Lossy(_)
Utf8Lossy(s) ==
    IF s = <<>> THEN <<>>
    ELSE (IF Head(s) < 128 THEN <<Head(s)>> ELSE <<239, 191, 189>>) \o Utf8Lossy(Tail(s))

\* read_indent with the slice taken one byte short, input[pos..position - 1]
ReadIndentShort(L) ==
    LET pos == L.position
        M == ReadIndentLoop(L)
    IN  [status |-> "ok", lx |-> M,
         tk |-> Indent(Utf8Lossy(SubSeq(M.input, pos + 1, M.position - 1)))]

\* Lexer::read_indent: the lexer after the call and the token returned;
\* panic when the slice input[pos..position] is out of range
ReadIndent(L) ==
    LET pos == L.position
        M == ReadIndentLoop(L)
    IN  IF pos <= M.position /\ M.position <= Len(M.input)
        THEN [status |-> "ok", lx |-> M,
              tk |-> Indent(Utf8Lossy(SubSeq(M.input, pos + 1, M.position)))]
        ELSE [status |-> "panic", lx |-> M, tk |-> DefaultToken]

\* Lexer::read_heading: panic when position - pos underflows
ReadHeading(L) ==
    LET pos == L.position
        M == ReadHeadingLoop(L)
    IN  IF M.position >= pos
        THEN [status |-> "ok", lx |-> M, tk |-> Heading(M.position - pos)]
        ELSE [status |-> "panic", lx |-> M, tk |-> DefaultToken]

\* the match of next_token with the results of its b'\0' and b'\n' arms
\* exchanged
ClassifySwappedEnds(c) ==
    CASE c = 32 -> "WhiteSpace"
      [] c = 91 -> "LeftSquare"
      [] c = 93 -> "RightSquare"
      [] c = 41 -> "LeftParen"
      [] c = 40 -> "RightParen"
      [] c = 60 -> "LeftAngle"
      [] c = 62 -> "RightAngle"
      [] c = 45 -> "Dash"
      [] c = 43 -> "Plus"
      [] c = 61 -> "Equal"
      [] c = HASH -> "Heading"
      [] c # HASH /\ IsIndentChar(c) -> "Indent"
      [] c = NUL -> "EOL"
      [] c = NEWLINE -> "EOF"
      [] c = 46 -> "Dot"
      [] c = 95 -> "Undersocre"
      [] c = 96 -> "BackTick"
      [] c = 92 -> "BackSlash"
      [] c = 42 -> "Asterisk"
      [] c = 58 -> "Colon"
      [] c = 59 -> "SemiColon"
      [] c = 47 -> "Slash"
      [] c = 9  -> "Tab"
      [] OTHER  -> "Illegal"

\* the match on self.ch of next_token, arm by arm in the order of the
\* source: the variant chosen for the byte ("Heading" and "Indent" stand for
\* the arms that call read_heading and read_indent)
Classify(c) ==
    CASE c = 32 -> "WhiteSpace"        \* b' '
      [] c = 91 -> "LeftSquare"        \* b'['
      [] c = 93 -> "RightSquare"       \* b']'
      [] c = 41 -> "LeftParen"         \* b')'
      [] c = 40 -> "RightParen"        \* b'('
      [] c = 60 -> "LeftAngle"         \* b'<'
      [] c = 62 -> "RightAngle"        \* b'>'
      [] c = 45 -> "Dash"              \* b'-'
      [] c = 43 -> "Plus"              \* b'+'
      [] c = 61 -> "Equal"             \* b'='
      [] c = HASH -> "Heading"         \* b'#'
      [] c # HASH /\ IsIndentChar(c) -> "Indent"
      [] c = NUL -> "EOF"              \* b'\0'
      [] c = NEWLINE -> "EOL"          \* b'\n'
      [] c = 46 -> "Dot"               \* b'.'
      [] c = 95 -> "Undersocre"        \* b'_'
      [] c = 96 -> "BackTick"          \* b'`'
      [] c = 92 -> "BackSlash"         \* b'\\'
      [] c = 42 -> "Asterisk"          \* b'*'
      [] c = 58 -> "Colon"             \* b':'
      [] c = 59 -> "SemiColon"         \* b';'
      [] c = 47 -> "Slash"             \* b'/'
      [] c = 9  -> "Tab"               \* b'\t'
      [] OTHER  -> "Illegal"

\* next_token stepping over the illegal byte (read_char) before it fails
NextTokenSkipIllegal(L) ==
    LET kind == Classify(L.ch) IN
    CASE kind = "Heading" -> ReadHeading(L) @@ [msg |-> ""]
      [] kind = "Indent"  -> ReadIndent(L) @@ [msg |-> ""]
      [] kind = "Illegal" ->
            [status |-> "err", lx |-> ReadChar(L), tk |-> Illegal(L.ch),
             msg |-> Display(Illegal(L.ch))]
      [] OTHER ->
            [status |-> "ok", lx |-> ReadChar(L), tk |-> Tok(kind), msg |-> ""]

\* Lexer::next_token: status "ok" with the lexer after the call and the
\* token returned, "err" with the message of the LexerErr and the lexer
\* as the call leaves it, or "panic"
NextToken(L) ==
    LET kind == Classify(L.ch) IN
    CASE kind = "Heading" -> ReadHeading(L) @@ [msg |-> ""]
      [] kind = "Indent"  -> ReadIndent(L) @@ [msg |-> ""]
      [] kind = "Illegal" ->
            [status |-> "err", lx |-> L, tk |-> Illegal(L.ch),
             msg |-> Display(Illegal(L.ch))]
      [] OTHER ->
            [status |-> "ok", lx |-> ReadChar(L), tk |-> Tok(kind), msg |-> ""]

----------------------------------------------------------------------------
(* The state machine: the life of one Lexer, from Lexer::new on *)

\* the Lexer of the current state
Self == LexerOf(position, read_position, ch, input)

\* the results of parse
NoResult == [kind |-> "none", tokens |-> <<>>, msg |-> ""]
Ok(ts) == [kind |-> "Ok", tokens |-> ts, msg |-> ""]
Err(m) == [kind |-> "Err", tokens |-> <<>>, msg |-> m]
Panic == [kind |-> "Panic", tokens |-> <<>>, msg |-> ""]

\* the bytes the texts handed to parse are made of: word bytes 'a' and '2',
\* '#', space, newline, NUL and the illegal byte '{'
Alphabet == {97, 50, 35, 32, 10, 0, 123}

\* all byte strings over S of length at most n
SeqsUpTo(S, n) == UNION { [1..k -> S] : k \in 0..n }

\* the lexer fields after a next_token call
SetLexer(M) ==
    /\ position' = M.position
    /\ read_position' = M.read_position
    /\ ch' = M.ch
    /\ input' = M.input

\* the condition that ends the while loop of parse, line 114
LoopDonePastLast(L) == L.position > Len(L.input)

LoopDone(L) == L.position >= Len(L.input)

AtEnd == LoopDone(Self)

\* what a parse call returns when next_token does not return a token
Failure(r) == IF r.status = "err" THEN Err(r.msg) ELSE Panic

\* the while loop of parse, lines 114-117, run to its end
RECURSIVE ParseLoop(_, _)
ParseLoop(L, toks) ==
    IF LoopDone(L) THEN [result |-> Ok(toks), lx |-> L]
    ELSE LET r == NextToken(L) IN
         IF r.status = "ok" THEN ParseLoop(r.lx, Append(toks, r.tk))
         ELSE [result |-> Failure(r), lx |-> r.lx]

\* Lexer::parse as one call on the Lexer L: what it returns and the Lexer
\* it leaves
ParseOn(L, text) ==
    LET r == NextToken([L EXCEPT !.input = <<NEWLINE>> \o text]) IN
    IF r.status = "ok" THEN ParseLoop(r.lx, <<>>)
    ELSE [result |-> Failure(r), lx |-> r.lx]

Init ==
    /\ position = NewLexer.position
    /\ read_position = NewLexer.read_position
    /\ ch = NewLexer.ch
    /\ input = NewLexer.input
    /\ tokens = <<>>
    /\ spans = <<>>
    /\ pc = "idle"
    /\ result = NoResult
    /\ calls = 0
    /\ fed = 0
    /\ iters = 0
    /\ erred = FALSE
    /\ tk = DefaultToken
    /\ rendered = ""

\* parse, lines 109-112: the buffer is replaced, the cursor is not
Parse(text) ==
    /\ pc = "idle"
    /\ calls < MaxCalls
    /\ fed + Len(text) <= MaxBytes
    /\ input' = <<NEWLINE>> \o text
    /\ tokens' = <<>>
    /\ spans' = <<>>
    /\ pc' = "warm"
    /\ result' = NoResult
    /\ calls' = calls + 1
    /\ fed' = fed + Len(text)
    /\ iters' = 0
    /\ erred' = (erred \/ result.kind = "Err")
    /\ tk' = DefaultToken
    /\ rendered' = ""
    /\ UNCHANGED <<position, read_position, ch>>

\* how a parse call ends when next_token does not return a token
Fail(r) ==
    /\ SetLexer(r.lx)
    /\ tokens' = <<>>
    /\ pc' = "idle"
    /\ result' = Failure(r)

\* parse, line 113: self.next_token()?, the token is dropped
WarmUp ==
    /\ pc = "warm"
    /\ LET r == NextToken(Self) IN
         IF r.status = "ok"
         THEN /\ SetLexer(r.lx)
              /\ pc' = "loop"
              /\ UNCHANGED <<tokens, result>>
         ELSE Fail(r)
    /\ UNCHANGED spans
    /\ UNCHANGED <<calls, fed, iters, erred, tk, rendered>>

\* parse, lines 114-116: one iteration of the while loop
LoopStep ==
    /\ pc = "loop"
    /\ ~AtEnd
    /\ LET r == NextToken(Self) IN
         IF r.status = "ok"
         THEN /\ SetLexer(r.lx)
              /\ tokens' = Append(tokens, r.tk)
              /\ spans' = Append(spans, <<position, r.lx.position>>)
              /\ UNCHANGED <<pc, result>>
         ELSE Fail(r) /\ UNCHANGED spans
    /\ iters' = iters + 1
    /\ UNCHANGED <<calls, fed, erred, tk, rendered>>

\* parse, line 117: Ok(tokens)
Return ==
    /\ pc = "loop"
    /\ AtEnd
    /\ result' = Ok(tokens)
    /\ tokens' = <<>>
    /\ pc' = "idle"
    /\ UNCHANGED <<position, read_position, ch, input, spans, calls, fed, iters, erred,
                   tk, rendered>>

\* a caller renders a token that parse returned: Token::to_string
Render ==
    /\ pc = "idle"
    /\ result.kind = "Ok"
    /\ rendered = ""
    /\ \E i \in DOMAIN result.tokens :
          /\ tk' = result.tokens[i]
          /\ rendered' = Display(result.tokens[i])
    /\ UNCHANGED <<position, read_position, ch, input, tokens, spans, pc, result,
                   calls, fed, iters, erred>>

Next ==
    \/ \E text \in SeqsUpTo(Alphabet, MaxBytes - fed) : Parse(text)
    \/ WarmUp
    \/ LoopStep
    \/ Return

Spec == Init /\ [][Next]_vars

\* the texts of the unit specification: every single byte, and the runs of
\* '#' and of word bytes ('a', 'Z', '0', ',', '\'') up to MaxRender bytes
UnitInputs ==
    { <<c>> : c \in 0..255 } \cup SeqsUpTo({HASH, 97, 90, 48, 44, 39}, MaxRender)

\* in the unit specification every text is parsed by a Lexer of its own
UnitNext ==
    \/ \E text \in UnitInputs : calls = 0 /\ Parse(text)
    \/ WarmUp
    \/ LoopStep
    \/ Return
    \/ Render

\* parse on every byte and on long runs, and to_string on the tokens returned
UnitSpec == Init /\ [][UnitNext]_vars

----------------------------------------------------------------------------
(* Vocabulary of the properties *)

\* a parse call has returned and its result is in `result`
Returned == pc = "idle" /\ calls > 0

\* the text that was handed to the current (or last) parse call
Text == Tail(input)

\* the current (or last) parse call is the first one on its Lexer
FreshCall == calls = 1

\* the word class: ASCII letters, ASCII digits, ',', '"', '\''
WordClass == (65..90) \cup (97..122) \cup (48..57) \cup {44, 34, 39}

\* the punctuation: [ ] ( ) < > . - = + * _ ` \ / : ;
Punctuation == {91, 93, 40, 41, 60, 62, 46, 45, 61, 43, 42, 95, 96, 92, 47, 58, 59}

\* the alphabet: word class, space, tab, newline, NUL, '#', punctuation
LegalBytes == WordClass \cup {32, 9, 10, 0, 35} \cup Punctuation

IsValid(text) == \A i \in DOMAIN text : text[i] \in LegalBytes

\* the last index of the maximal run of bytes of class C that starts at i
RunEnd(buf, i, C) ==
    CHOOSE j \in i..Len(buf) :
        /\ \A k \in i..j : buf[k] \in C
        /\ j = Len(buf) \/ buf[j + 1] \notin C

\* the left-to-right maximal-munch tokenization of buf from index i on
RECURSIVE Munch(_, _)
Munch(buf, i) ==
    IF i > Len(buf) THEN <<>>
    ELSE IF buf[i] = 35
         THEN LET j == RunEnd(buf, i, {35})
              IN  <<Heading(j - i + 1)>> \o Munch(buf, j + 1)
    ELSE IF buf[i] \in WordClass
         THEN LET j == RunEnd(buf, i, WordClass)
              IN  <<Indent(SubSeq(buf, i, j))>> \o Munch(buf, j + 1)
    ELSE <<Tok(Classify(buf[i]))>> \o Munch(buf, i + 1)

\* the number of buffer bytes a token stands for
SpanLen(t) ==
    CASE t.type = "Heading" -> t.n
      [] t.type = "Indent"  -> Len(t.text)
      [] OTHER              -> 1

----------------------------------------------------------------------------
(* C1 *)

\* C1: for every text made only of alphabet bytes, parse on a fresh Lexer
\* returns Ok with exactly the maximal-munch tokenization of "\n" + text:
\* one Heading(n) per maximal run of n '#', one Indent per maximal run of
\* word-class bytes carrying that run's bytes, one token per other byte, in
\* buffer order, and nothing after the token of the last byte.
C1_MaximalMunch ==
    (Returned /\ FreshCall /\ IsValid(Text)) => result = Ok(Munch(input, 1))

\* a fresh Lexer has returned the tokens of "##a2"
C1_Witness ==
    /\ Returned /\ FreshCall
    /\ Text = <<35, 35, 97, 50>>
    /\ result = Ok(<<Tok("EOL"), Heading(2), Indent(<<97, 50>>)>>)

----------------------------------------------------------------------------
(* C2 *)

\* C2: a Lexer holds no cross-call state: the result of every parse call,
\* whatever calls were made on the Lexer before, equals the result a fresh
\* Lexer returns for that call's text.
C2_NoCrossCallState ==
    Returned => result = ParseOn(NewLexer, Text).result

----------------------------------------------------------------------------
(* C3 *)

\* C3: a parse call whose text holds a byte outside the alphabet returns
\* Err and no tokens; a call whose text holds none returns Ok; and an Ok
\* sequence holds no Illegal token.
C3_IllegalFailFast ==
    Returned =>
        /\ ~IsValid(Text) => (result.kind = "Err" /\ result.tokens = <<>>)
        /\ IsValid(Text) => result.kind = "Ok"
        /\ result.kind = "Ok" =>
              \A i \in DOMAIN result.tokens : result.tokens[i].type # "Illegal"

----------------------------------------------------------------------------
(* C4 *)

\* the bytes a token stands for, by the table of next_token read backwards
TokenBytes(t) ==
    CASE t.type = "Heading" -> [i \in 1..t.n |-> 35]
      [] t.type = "Indent"  -> t.text
      [] OTHER -> <<CHOOSE c \in 0..255 : Classify(c) = t.type>>

RECURSIVE Unlex(_)
Unlex(ts) == IF ts = <<>> THEN <<>> ELSE TokenBytes(Head(ts)) \o Unlex(Tail(ts))

\* the spans of the tokens tile the buffer from offset 0 to its length
SpansTile ==
    /\ Len(spans) = Len(result.tokens)
    /\ \A i \in DOMAIN spans :
          /\ spans[i][1] = (IF i = 1 THEN 0 ELSE spans[i - 1][2])
          /\ spans[i][2] = spans[i][1] + SpanLen(result.tokens[i])
    /\ spans # <<>> /\ spans[Len(spans)][2] = Len(input)

\* C4: for every valid text, the spans of the tokens parse returns (n bytes
\* for Heading(n), the text length for Indent, one byte otherwise) are
\* contiguous, start at offset 0 of "\n" + text and end at its length, and
\* their bytes put together are the buffer.
C4_Coverage ==
    (Returned /\ IsValid(Text)) =>
        /\ result.kind = "Ok"
        /\ SpansTile
        /\ Unlex(result.tokens) = input

----------------------------------------------------------------------------
(* C5 *)

\* C5: parse of the empty text returns exactly [EOL, EOF], and the sequence
\* returned for a valid text ends with an EOF token ("2\n" yields EOL,
\* Indent("2"), EOL, EOF).
C5_EofSentinel ==
    (Returned /\ IsValid(Text) /\ FreshCall) =>
        /\ result.kind = "Ok"
        /\ result.tokens # <<>>
        /\ result.tokens[Len(result.tokens)] = Tok("EOF")
        /\ Text = <<>> => result.tokens = <<Tok("EOL"), Tok("EOF")>>
        /\ Text = <<50, 10>> =>
              result.tokens = <<Tok("EOL"), Indent(<<50>>), Tok("EOL"), Tok("EOF")>>

\* C5 as amended: reaching the end of the buffer emits no token.  A parse
\* call on a fresh Lexer returns exactly [EOL] for the empty text and EOL,
\* Indent("2"), EOL for "2\n"; and in every sequence parse returns, the span
\* of the last token ends at the end of the buffer, so that the last token
\* is EOF exactly when the last byte of the buffer is NUL.
C5_NoEofAtEnd ==
    (Returned /\ result.kind = "Ok") =>
        /\ (FreshCall /\ Text = <<>>) => result.tokens = <<Tok("EOL")>>
        /\ (FreshCall /\ Text = <<50, 10>>) =>
              result.tokens = <<Tok("EOL"), Indent(<<50>>), Tok("EOL")>>
        /\ result.tokens # <<>> =>
              /\ spans[Len(spans)][2] = Len(input)
              /\ spans[Len(spans)][1] + SpanLen(result.tokens[Len(spans)]) = Len(input)
              /\ (result.tokens[Len(result.tokens)] = Tok("EOF"))
                    <=> (input[Len(input)] = NUL)

\* a fresh Lexer has returned EOL, Indent("2"), EOL for "2\n"
C5_Witness ==
    /\ Returned /\ FreshCall
    /\ Text = <<50, 10>>
    /\ result = Ok(<<Tok("EOL"), Indent(<<50>>), Tok("EOL")>>)

----------------------------------------------------------------------------
(* C6 *)

\* C6: every successful parse call returns a non-empty sequence whose first
\* token is EOL, the token of the prepended newline (its span is the first
\* byte of the buffer), and the token of the first byte of the text comes
\* after it.
C6_LeadingEol ==
    (Returned /\ result.kind = "Ok") =>
        /\ result.tokens # <<>>
        /\ result.tokens[1] = Tok("EOL")
        /\ spans[1] = <<0, 1>>

----------------------------------------------------------------------------
(* C7 *)

\* the token named after each punctuation byte
NamedAfter(c) ==
    CASE c = 40 -> "LeftParen"    [] c = 41 -> "RightParen"
      [] c = 91 -> "LeftSquare"   [] c = 93 -> "RightSquare"
      [] c = 60 -> "LeftAngle"    [] c = 62 -> "RightAngle"
      [] c = 32 -> "WhiteSpace"   [] c = 9  -> "Tab"
      [] c = 46 -> "Dot"          [] c = 45 -> "Dash"
      [] c = 61 -> "Equal"        [] c = 43 -> "Plus"
      [] c = 42 -> "Asterisk"     [] c = 95 -> "Undersocre"
      [] c = 96 -> "BackTick"     [] c = 92 -> "BackSlash"
      [] c = 47 -> "Slash"        [] c = 58 -> "Colon"
      [] c = 59 -> "SemiColon"

\* C7: each punctuation byte is classified as the token named after it:
\* '(' as the left paren and ')' as the right paren, and likewise the
\* brackets, the angles, space, tab and . - = + * _ ` \ / : ;
C7_PunctuationTokens ==
    (Returned /\ FreshCall /\ Len(Text) = 1 /\ Text[1] \in Punctuation \cup {32, 9}) =>
        result = Ok(<<Tok("EOL"), Tok(NamedAfter(Text[1]))>>)

----------------------------------------------------------------------------
(* C8 *)

\* C8: in every sequence parse returns, each Indent has a non-empty text,
\* which is the bytes of its span, and the byte after its span (if any) is
\* no word-class byte; each Heading(n) has n >= 1, its span is n '#' bytes
\* and the byte after it (if any) is no '#'; so no two Indent and no two
\* Heading tokens are adjacent.
C8_RunMaximality ==
    (Returned /\ result.kind = "Ok") =>
        /\ Len(spans) = Len(result.tokens)
        /\ \A i \in DOMAIN result.tokens :
              LET t == result.tokens[i]
                  from == spans[i][1]
                  to == spans[i][2]
              IN  /\ t.type = "Indent" =>
                        /\ Len(t.text) >= 1
                        /\ t.text = SubSeq(input, from + 1, to)
                        /\ to < Len(input) => input[to + 1] \notin WordClass
                  /\ t.type = "Heading" =>
                        /\ t.n >= 1
                        /\ to - from = t.n
                        /\ \A k \in (from + 1)..to : input[k] = 35
                        /\ to < Len(input) => input[to + 1] # 35
                  /\ i < Len(result.tokens) =>
                        /\ ~(t.type = "Indent" /\ result.tokens[i + 1].type = "Indent")
                        /\ ~(t.type = "Heading" /\ result.tokens[i + 1].type = "Heading")

\* parse has returned a word run, a run of two '#' and a word run
C8_Witness ==
    /\ Returned
    /\ Text = <<97, 35, 35, 50>>
    /\ result = Ok(<<Tok("EOL"), Indent(<<97>>), Heading(2), Indent(<<50>>)>>)

----------------------------------------------------------------------------
(* C9 *)

\* a step that is one next_token call which returns a token
NextTokenOk ==
    \/ pc = "warm" /\ pc' = "loop"
    \/ pc = "loop" /\ pc' = "loop" /\ iters' = iters + 1

\* Termination is stated by its bound.  A call is one WarmUp, then
\* LoopSteps, then Return, unless a step fails and ends it, and one of these
\* steps can always be taken (WarmUp when pc = "warm"; LoopStep or Return,
\* as LoopDone decides, when pc = "loop").  So a call ends if and only if
\* it makes finitely many LoopSteps: LoopBounded.
LoopBounded ==
    /\ iters <= Len(input)
    /\ pc = "loop" => iters <= position

\* C9: every parse call, from any Lexer state earlier calls leave, ends
\* with Ok or Err; every next_token call that does not fail increases
\* position by at least 1; the loop runs at most (buffer length) times.
C9_Termination ==
    /\ [][NextTokenOk => position' >= position + 1]_vars
    /\ []LoopBounded
    /\ [](Returned => result.kind \in {"Ok", "Err"})

\* C9 as amended: every parse call, from any Lexer state earlier calls
\* leave, ends with Ok or Err; every next_token call that does not fail
\* increases position by at least 1, except the warm-up call of the first
\* parse on a new Lexer, which leaves position at 0; so every call made in
\* the loop increases it, and the loop runs at most (buffer length) times.
C9_TerminationAmended ==
    /\ [][NextTokenOk =>
            IF pc = "warm" /\ calls = 1
            THEN position = 0 /\ position' = 0
            ELSE position' >= position + 1]_vars
    /\ []LoopBounded
    /\ [](Returned => result.kind \in {"Ok", "Err"})

\* the second parse call on a Lexer has run its loop twice and returned Ok
C9_Witness ==
    /\ Returned
    /\ calls = 2
    /\ result.kind = "Ok"
    /\ iters = 2
    /\ position = Len(input)

----------------------------------------------------------------------------
(* C10 *)

\* the textual forms as the claim gives them
ClaimedText(t) ==
    CASE t.type = "Heading" -> "Heading: #" \o ToString(t.n)
      [] t.type = "Indent"  -> "Indent: " \o Str(t.text) \o " "
      [] t.type = "Illegal" -> "Illegal: " \o ToString(t.b) \o " "
      [] t.type \in SimpleNames -> t.type

\* C10: the textual form of Heading(n) is exactly "Heading: #<n>", of
\* Indent(text) exactly "Indent: <text> ", of Illegal(b) exactly
\* "Illegal: <b> ", of a single-byte variant exactly its name; and the
\* LexerErr for an illegal byte b carries exactly the form of Illegal(b).
C10_Rendering ==
    /\ rendered # "" => rendered = ClaimedText(tk)
    /\ (Returned /\ result.kind = "Err") => result.msg = ClaimedText(Illegal(ch))

\* C10 as amended: the textual form of every token is "Token -> " followed
\* by: "Heading: #<n>" for Heading(n), "Indent: <text> " for Indent(text),
\* "Illegal: <b> " for Illegal(b) (b in decimal), its name for a
\* single-byte variant; and the LexerErr for an illegal byte b carries
\* exactly that textual form of Illegal(b), prefix included.
C10_RenderingAmended ==
    /\ rendered # "" => rendered = "Token -> " \o ClaimedText(tk)
    /\ (Returned /\ result.kind = "Err") =>
          /\ Classify(ch) = "Illegal"
          /\ result.msg = "Token -> " \o ClaimedText(Illegal(ch))

\* to_string has rendered an Indent token that parse returned
C10_Witness ==
    /\ tk = Indent(<<97, 44, 39>>)
    /\ rendered = "Token -> Indent: a,' "

----------------------------------------------------------------------------
(* C11 *)

\* a step that is one next_token call
NextTokenCall == pc = "warm" \/ (pc = "loop" /\ pc' = "idle" /\ result'.kind # "Ok")
                    \/ (pc = "loop" /\ pc' = "loop")

\* C11: when next_token classifies the current byte as Illegal it returns
\* Err without calling read_char: position, read_position, ch and the
\* buffer are after the call exactly what they were before it.
C11_FrameOnFailure ==
    [][(NextTokenCall /\ Classify(ch) = "Illegal") =>
          /\ pc' = "idle"
          /\ result'.kind = "Err"
          /\ position' = position
          /\ read_position' = read_position
          /\ ch' = ch
          /\ input' = input]_vars

\* parse has failed on the '{' of "a{", and the cursor is still on it
C11_Witness ==
    /\ Returned
    /\ result.kind = "Err"
    /\ input = <<10, 97, 123>>
    /\ position = 2 /\ read_position = 3 /\ ch = 123

----------------------------------------------------------------------------
(* C12 *)

\* the cursor of L is on a byte: read_position is one past position, and
\* ch is the byte at position, or NUL past the end of the buffer
CursorOk(L) ==
    /\ L.read_position = L.position + 1
    /\ L.ch = (IF L.position < Len(L.input) THEN L.input[L.position + 1] ELSE 0)

\* L after k more calls of read_char
RECURSIVE ReadChars(_, _)
ReadChars(L, k) == IF k = 0 THEN L ELSE ReadChars(ReadChar(L), k - 1)

\* the current parse call has called read_char
HasReadChar ==
    \/ pc = "loop"
    \/ Returned /\ (result.kind = "Ok" \/ iters >= 1)

\* C12: after every read_char, read_position = position + 1 and ch is
\* buffer[position] when position < buffer length, NUL otherwise; so at the
\* start of every iteration of the parse loop the byte being classified is
\* buffer[position].
C12_CursorInvariant ==
    /\ HasReadChar => CursorOk(Self)
    /\ \A k \in 1..(Len(input) + 1) : CursorOk(ReadChars(Self, k))
    /\ (pc = "loop" /\ ~AtEnd) => ch = input[position + 1]

\* a fresh Lexer is at the top of its loop on the '#' of "a#"
C12_Witness ==
    /\ pc = "loop"
    /\ FreshCall
    /\ input = <<10, 97, 35>>
    /\ position = 2 /\ read_position = 3 /\ ch = 35

----------------------------------------------------------------------------
(* C13 *)

\* what a fresh Lexer returns for a text
FreshParse(text) == ParseOn(NewLexer, text).result

\* splitting Text after its first k bytes splits "\n" + Text at a token
\* boundary of the sequence returned: at the start of a token's span, or at
\* the end of the buffer
AtTokenBoundary(k) ==
    \/ k + 1 = Len(input)
    \/ \E i \in DOMAIN spans : spans[i][1] = k + 1

\* C13: for valid texts x and y whose split point is a token boundary of
\* the tokenization of x + y, parse(x + y) on a fresh Lexer is parse(x)
\* followed by parse(y) without y's leading EOL.
C13_SplitAtBoundary ==
    (Returned /\ FreshCall /\ IsValid(Text)) =>
        /\ result.kind = "Ok"
        /\ \A k \in 0..Len(Text) :
              AtTokenBoundary(k) =>
                 LET x == SubSeq(Text, 1, k)
                     y == SubSeq(Text, k + 1, Len(Text))
                 IN  /\ FreshParse(x).kind = "Ok"
                     /\ FreshParse(y).kind = "Ok"
                     /\ result.tokens =
                           FreshParse(x).tokens \o Tail(FreshParse(y).tokens)

\* a fresh Lexer has returned the five tokens of "a #\0", which can be
\* split at each of its four inner boundaries
C13_Witness ==
    /\ Returned /\ FreshCall
    /\ Text = <<97, 32, 35, 0>>
    /\ result = Ok(<<Tok("EOL"), Indent(<<97>>), Tok("WhiteSpace"), Heading(1), Tok("EOF")>>)
    /\ \A k \in 0..4 : AtTokenBoundary(k)

----------------------------------------------------------------------------
(* C14 *)

\* C14: once a parse call on a Lexer has returned Err, every later parse
\* call on that Lexer returns Err too, whatever its text: parse replaces
\* the buffer but not ch, position or read_position, and the warm-up
\* next_token classifies the stale illegal ch again.
C14_ErrIsSticky ==
    /\ (Returned /\ erred) =>
          /\ result.kind = "Err"
          /\ iters = 0
    /\ (Returned /\ result.kind = "Err") => Classify(ch) = "Illegal"
    /\ (erred /\ pc = "warm") => Classify(ch) = "Illegal"

\* after a call that failed, the call with the valid text "a" has failed too
C14_Witness ==
    /\ Returned
    /\ erred
    /\ calls = 2
    /\ Text = <<97>>
    /\ result.kind = "Err"

----------------------------------------------------------------------------
(* C15 *)

\* the number of indices of the sequence s that satisfy P
Count(s, P(_)) == Cardinality({i \in DOMAIN s : P(s[i])})

IsNul(c) == c = 0
IsEof(t) == t = Tok("EOF")

\* C15: in a sequence returned by parse on a fresh Lexer, an EOF token
\* stands exactly for each NUL byte of the text, at that byte's place, and
\* the scan goes on after it: a token is EOF if and only if its span is one
\* NUL byte, every NUL byte of the buffer is the span of a token, and there
\* are as many EOF tokens as NUL bytes; a text without NUL yields no EOF.
C15_EofPerNul ==
    (Returned /\ FreshCall /\ IsValid(Text)) =>
        /\ result.kind = "Ok"
        /\ Len(spans) = Len(result.tokens)
        /\ \A i \in DOMAIN result.tokens :
              IsEof(result.tokens[i]) <=>
                 (spans[i][2] = spans[i][1] + 1 /\ input[spans[i][1] + 1] = 0)
        /\ \A p \in DOMAIN input :
              input[p] = 0 => \E i \in DOMAIN spans : spans[i] = <<p - 1, p>>
        /\ Count(result.tokens, IsEof) = Count(Text, IsNul)
        /\ (\A p \in DOMAIN Text : Text[p] # 0) =>
              \A i \in DOMAIN result.tokens : ~IsEof(result.tokens[i])

\* a fresh Lexer has returned an EOF for each of the two NUL bytes of
\* "\0a\0", the first one in the middle of the sequence
C15_Witness ==
    /\ Returned /\ FreshCall
    /\ Text = <<0, 97, 0>>
    /\ result = Ok(<<Tok("EOL"), Tok("EOF"), Indent(<<97>>), Tok("EOF")>>)

----------------------------------------------------------------------------
(* C16 *)

\* the next step of the current parse call is a next_token call
AboutToCallNextToken == pc = "warm" \/ (pc = "loop" /\ ~AtEnd)

\* the index read_char uses, when it indexes the buffer, is in range
ReadCharInRange(L) ==
    L.read_position < Len(L.input) => (L.read_position + 1) \in DOMAIN L.input

\* C16: after any sequence of parse calls on one Lexer, succeeding or
\* failing, no buffer access is out of bounds: read_char indexes the buffer
\* only at read_position < length, read_indent slices buffer[pos..position]
\* with pos <= position <= length, and position - pos of read_heading
\* never underflows.
C16_InBounds ==
    /\ result.kind # "Panic"
    /\ \A k \in 0..(Len(input) + 1) : ReadCharInRange(ReadChars(Self, k))
    /\ AboutToCallNextToken =>
          /\ NextToken(Self).status # "panic"
          /\ Classify(ch) = "Indent" =>
                LET M == ReadIndentLoop(Self)
                IN  position <= M.position /\ M.position <= Len(input)
          /\ Classify(ch) = "Heading" =>
                LET M == ReadHeadingLoop(Self)
                IN  position <= M.position /\ M.position <= Len(input)

\* the second call on a Lexer, which starts in the middle of its buffer
\* " a#", has run read_indent and read_heading and returned
C16_Witness ==
    /\ Returned
    /\ calls = 2
    /\ input = <<10, 32, 97, 35>>
    /\ result = Ok(<<Indent(<<97>>), Heading(1)>>)

====
